---- MODULE Spec2Model ----
(***************************************************************************)
(* Model of app.py, the RnD DVT Test Planner: token normalization, item    *)
(* extraction, the missing-rule-line matcher, the history store and the    *)
(* "Analyze Test Plan" handler with its AI-suggestion step.                *)
(*                                                                         *)
(* Text is a sequence of characters; a character is a one-character        *)
(* string (the degree sign is written "deg").  The regular expressions of  *)
(* the source are modelled by what Python's re module computes for them:   *)
(* leftmost match, greedy quantifiers, backtracking to satisfy \b.         *)
(***************************************************************************)
EXTENDS Integers, Sequences, FiniteSets, TLC

VARIABLES
    token,            \* normalize_token: the token handed in
    key,              \* normalize_token(token)
    key2,             \* normalize_token(key)
    npc,              \* position of the normalization run
    user_input,       \* the requirement ID entered in step 2
    rule_lines,       \* load_rules_for_requirement(user_input)
    plan_text,        \* the uploaded plan, joined
    missing_lines,    \* result of get_missing_rule_lines
    shown,            \* the missing lines rendered under "Based on Past Test Cases"
    api_key,          \* module-level api_key (TRUE: configured)
    files,            \* the files of HISTORY_DIR
    clock,            \* pd.Timestamp.now(), to the second
    history,          \* the files load_history read for the prompt, in order
    ai_text,          \* response.text of the model call
    ai_suggestions,   \* what get_gemini_suggestions returned
    calls,            \* the collaborators called in the current run, in order
    saved,            \* the ai_suggestions argument of each save_history call of the run
    pc                \* position of the handler

vars == <<token, key, key2, npc, user_input, rule_lines, plan_text, missing_lines,
          shown, api_key, files, clock, history, ai_text, ai_suggestions, calls,
          saved, pc>>

normVars == <<token, key, key2, npc>>
appVars == <<user_input, rule_lines, plan_text, missing_lines, shown, api_key,
             files, clock, history, ai_text, ai_suggestions, calls, saved, pc>>

----------------------------------------------------------------------------
(* Characters and the character classes of Python's re on str.             *)

Digit == {"0", "1", "2", "3", "4", "5", "6", "7", "8", "9"}

LowerSeq == <<"a", "b", "c", "d", "e", "f", "g", "h", "i", "j", "k", "l", "m",
              "n", "o", "p", "q", "r", "s", "t", "u", "v", "w", "x", "y", "z">>

UpperSeq == <<"A", "B", "C", "D", "E", "F", "G", "H", "I", "J", "K", "L", "M",
              "N", "O", "P", "Q", "R", "S", "T", "U", "V", "W", "X", "Y", "Z">>

Lower == {LowerSeq[i] : i \in 1..26}

Upper == {UpperSeq[i] : i \in 1..26}

\* \s
Space == {" ", "\n", "\t"}

\* \w : letters, digits and the underscore
WordChar == Digit \cup Lower \cup Upper \cup {"_"}

\* [a-z%]
UnitChar == Lower \cup {"%"}

\* [a-z0-9], the characters re.sub(r'[^a-z0-9]', '', s) keeps
KeyChar == Lower \cup Digit

\* [\w\-]
ItemChar == WordChar \cup {"-"}

\* [\w\-\+\.]
RuleTokenChar == WordChar \cup {"-", "+", "."}

\* str.lower() on one character
LowerChar(c) ==
    IF c \in Upper THEN LowerSeq[CHOOSE i \in 1..26 : UpperSeq[i] = c] ELSE c

\* str.lower()
lower(s) == [i \in 1..Len(s) |-> LowerChar(s[i])]

\* re.sub(r'[^a-z0-9]', '', s)
StripNonKey(s) == SelectSeq(s, LAMBDA c : c \in KeyChar)

\* the character at 1-based position i, or "" outside the string
CharAt(s, i) == IF i \in 1..Len(s) THEN s[i] ELSE ""

\* \b before position i: exactly one of the two neighbours is a word character
WordBoundary(s, i) == (CharAt(s, i - 1) \in WordChar) # (CharAt(s, i) \in WordChar)

\* greedy Class* from position i: the first position not in Class
SpanEnd(s, i, Class) ==
    CHOOSE j \in i..(Len(s) + 1) :
        /\ \A k \in i..(j - 1) : s[k] \in Class
        /\ CharAt(s, j) \notin Class

\* -?\d+\.?\d* tried at position i: the position after the match, 0 if none
NumberEnd(s, i) ==
    LET d0 == IF CharAt(s, i) = "-" /\ CharAt(s, i + 1) \in Digit THEN i + 1 ELSE i
    IN  IF CharAt(s, d0) \notin Digit THEN 0
        ELSE LET d1 == SpanEnd(s, d0, Digit)
                 d2 == IF CharAt(s, d1) = "." THEN d1 + 1 ELSE d1
             IN  SpanEnd(s, d2, Digit)

\* -?\d+\.?\d*\s*[a-z%]* tried at position i: the position after the match, 0 if none
NumberItemEnd(s, i) ==
    LET n == NumberEnd(s, i)
    IN  IF n = 0 THEN 0 ELSE SpanEnd(s, SpanEnd(s, n, Space), UnitChar)

\* \b[Class]{min,}\b tried at position i: the longest run that ends on a \b
WordEnd(s, i, Class, min) ==
    IF ~WordBoundary(s, i) THEN 0
    ELSE LET n == SpanEnd(s, i, Class)
             ends == {j \in (i + min)..n : WordBoundary(s, j)}
         IN  IF ends = {} THEN 0 ELSE CHOOSE j \in ends : \A k \in ends : k <= j

\* re.findall(r'-?\d+\.?\d*\s*[a-z%]*', s), scanning from position i
RECURSIVE number_matches(_, _)
number_matches(s, i) ==
    IF i > Len(s) THEN <<>>
    ELSE LET e == NumberItemEnd(s, i)
         IN  IF e = 0 THEN number_matches(s, i + 1)
             ELSE <<SubSeq(s, i, e - 1)>> \o number_matches(s, e)

\* re.findall(r'\b[Class]{min,}\b', s), scanning from position i
RECURSIVE word_matches(_, _, _, _)
word_matches(s, i, Class, min) ==
    IF i > Len(s) THEN <<>>
    ELSE LET e == WordEnd(s, i, Class, min)
         IN  IF e = 0 THEN word_matches(s, i + 1, Class, min)
             ELSE <<SubSeq(s, i, e - 1)>> \o word_matches(s, e, Class, min)

\* the elements of a sequence
Range(q) == {q[i] : i \in 1..Len(q)}

----------------------------------------------------------------------------
(* Token normalization and the matcher.                                    *)

\* normalize_token without its first statement, token.lower()
normalize_token_keeps_case(tok) ==
    LET n == NumberEnd(tok, 1)
    IN  IF n # 0
        THEN StripNonKey(SubSeq(tok, 1, SpanEnd(tok, n, UnitChar) - 1))
        ELSE StripNonKey(tok)

normalize_token(tok) ==
    LET t == lower(tok)
        n == NumberEnd(t, 1)
    IN  IF n # 0
        THEN StripNonKey(SubSeq(t, 1, SpanEnd(t, n, UnitChar) - 1))
        ELSE StripNonKey(t)

extract_check_items_robust(text) ==
    LET t == lower(text)
        matches == number_matches(t, 1) \o word_matches(t, 1, ItemChar, 2)
    IN  {StripNonKey(m) : m \in Range(matches)} \ {<<>>}

\* re.findall(r'\b[\w\-\+\.]+\b', line)
rule_tokens(line) == word_matches(line, 1, RuleTokenChar, 1)

\* the condition of the if at the end of the loop body
LineIsMissing(line, normalized_plan_tokens) ==
    \E i \in 1..Len(rule_tokens(line)) :
        normalize_token(rule_tokens(line)[i]) \notin normalized_plan_tokens

\* normalized_plan_tokens: the keys of the items extracted from the plan
NormalizedPlanKeys(plan) ==
    {normalize_token(t) : t \in extract_check_items_robust(plan)}

get_missing_rule_lines(lines, plan) ==
    SelectSeq(lines, LAMBDA line : LineIsMissing(line, NormalizedPlanKeys(plan)))

----------------------------------------------------------------------------
(* Texts used by the scenarios.                                            *)

OperatingTemperatureRule ==
    <<"O", "p", "e", "r", "a", "t", "i", "n", "g", " ", "t", "e", "m", "p",
      "e", "r", "a", "t", "u", "r", "e", ":", " ", "-", "3", "0", "C", " ",
      "t", "o", " ", "5", "5", "C">>

TemperaturePlan ==
    <<"T", "e", "s", "t", " ", "a", "t", " ", "-", "3", "0", "C", " ", "a",
      "n", "d", " ", "+", "5", "5", "C", ",", " ", "v", "e", "r", "i", "f",
      "y", " ", "o", "p", "e", "r", "a", "t", "i", "o", "n", ".">>

StorageLimitRule ==
    <<"V", "e", "r", "i", "f", "y", " ", "-", "4", "0", "C", " ", "s", "t",
      "o", "r", "a", "g", "e", " ", "l", "i", "m", "i", "t">>

NoColdTestPlan ==
    <<"N", "o", " ", "c", "o", "l", "d", " ", "t", "e", "m", "p", "e", "r",
      "a", "t", "u", "r", "e", " ", "t", "e", "s", "t", " ", "p", "l", "a",
      "n", "n", "e", "d">>

PositiveStoragePlan ==
    <<"V", "e", "r", "i", "f", "y", " ", "4", "0", "C", " ", "s", "t", "o",
      "r", "a", "g", "e", " ", "l", "i", "m", "i", "t">>

Token25C == <<"2", "5", "C">>

Token25SpaceC == <<"2", "5", " ", "C">>

Token25DegC == <<"2", "5", " ", "deg", "C">>

Token25Point0c == <<"2", "5", ".", "0", "c">>

Token256HyphenQAM == <<"2", "5", "6", "-", "Q", "A", "M">>

Token256QAM == <<"2", "5", "6", "Q", "A", "M">>

\* all strings over alphabet of length at most n
RECURSIVE Strings(_, _)
Strings(alphabet, n) ==
    IF n = 0 THEN {<<>>}
    ELSE LET shorter == Strings(alphabet, n - 1)
         IN  shorter \cup {Append(s, c) : s \in shorter, c \in alphabet}

----------------------------------------------------------------------------
(* normalize_token applied to a token, and again to its own result.        *)

MaxTokenLen == 4

TokenAlphabet == {"5", "3", "b", "C", " ", "-", ".", "+", "_"}

SampleTokens ==
    {Token25C, Token25SpaceC, Token25DegC, Token25Point0c,
     Token256HyphenQAM, Token256QAM}

Tokens == Strings(TokenAlphabet, MaxTokenLen) \cup SampleTokens

AppIdle ==
    /\ user_input = <<>>
    /\ rule_lines = <<>>
    /\ plan_text = <<>>
    /\ missing_lines = <<>>
    /\ shown = <<>>
    /\ api_key = FALSE
    /\ files = {}
    /\ clock = 0
    /\ history = <<>>
    /\ ai_text = <<>>
    /\ ai_suggestions = <<>>
    /\ calls = <<>>
    /\ saved = <<>>
    /\ pc = "idle"

NormIdle ==
    /\ token = <<>>
    /\ key = <<>>
    /\ key2 = <<>>
    /\ npc = "idle"

InitNormalize ==
    /\ token \in Tokens
    /\ key = <<>>
    /\ key2 = <<>>
    /\ npc = "token"
    /\ AppIdle

Normalize ==
    /\ npc = "token"
    /\ key' = normalize_token(token)
    /\ npc' = "normalized"
    /\ UNCHANGED <<token, key2>>
    /\ UNCHANGED appVars

Renormalize ==
    /\ npc = "normalized"
    /\ key2' = normalize_token(key)
    /\ npc' = "renormalized"
    /\ UNCHANGED <<token, key>>
    /\ UNCHANGED appVars

NextNormalize == Normalize \/ Renormalize

SpecNormalize == InitNormalize /\ [][NextNormalize]_vars

\* C3: normalizing a normalized token changes nothing, for every token
NormalizationIdempotent == npc = "renormalized" => key2 = key

UnitVariants ==
    {{Token25C, Token25SpaceC, Token25DegC, Token25Point0c},
     {Token256HyphenQAM, Token256QAM}}

\* C4: the spellings of one number-with-unit token all get the same key
UnitEquivalence ==
    npc # "token" =>
        \A group \in UnitVariants :
            token \in group => \A other \in group : normalize_token(other) = key

----------------------------------------------------------------------------
(* The matcher: a rule document and a plan are analysed, then the plan is  *)
(* uploaded again with more text and analysed again.                       *)

MaxLineLen == 2

MaxPlanLen == 3

MatchAlphabet == {"5", "c", "-", " ", "."}

Minus40CRule == <<"-", "4", "0", "C">>

Plus40CPlan == <<"4", "0", "C">>

\* rule documents: one short line, no line, or one of the scenarios' documents
RuleDocs ==
    {<<line>> : line \in Strings(MatchAlphabet, MaxLineLen) \ {<<>>}}
        \cup {<<>>, <<OperatingTemperatureRule>>, <<StorageLimitRule>>, <<Minus40CRule>>,
              <<StorageLimitRule, OperatingTemperatureRule>>}

InitialPlans ==
    Strings(MatchAlphabet, 1)
        \cup {TemperaturePlan, NoColdTestPlan, PositiveStoragePlan, Plus40CPlan}

\* the branch of the handler that computes missing_lines
MissingLinesOf(lines, plan) ==
    IF lines # <<>> THEN get_missing_rule_lines(lines, plan) ELSE <<>>

InitMatch ==
    /\ rule_lines \in RuleDocs
    /\ plan_text \in InitialPlans
    /\ missing_lines = <<>>
    /\ pc = "uploaded"
    /\ user_input = <<>>
    /\ shown = <<>>
    /\ api_key = FALSE
    /\ files = {}
    /\ clock = 0
    /\ history = <<>>
    /\ ai_text = <<>>
    /\ ai_suggestions = <<>>
    /\ calls = <<>>
    /\ saved = <<>>
    /\ NormIdle

matchRest ==
    <<user_input, shown, api_key, files, clock, history, ai_text, ai_suggestions,
      calls, saved>>

\* the button is pressed: missing_lines is computed from the rules and the plan
AnalyzeCoverage ==
    /\ pc = "uploaded"
    /\ missing_lines' = MissingLinesOf(rule_lines, plan_text)
    /\ pc' = "analyzed"
    /\ UNCHANGED <<rule_lines, plan_text>>
    /\ UNCHANGED matchRest
    /\ UNCHANGED normVars

\* the plan is uploaded again with text added at its end, and analysed
AnalyzeLongerPlan ==
    /\ pc = "analyzed"
    /\ Len(plan_text) < MaxPlanLen
    /\ \E c \in MatchAlphabet :
        /\ plan_text' = Append(plan_text, c)
        /\ missing_lines' = MissingLinesOf(rule_lines, plan_text')
    /\ UNCHANGED <<rule_lines, pc>>
    /\ UNCHANGED matchRest
    /\ UNCHANGED normVars

NextMatch == AnalyzeCoverage \/ AnalyzeLongerPlan

SpecMatch == InitMatch /\ [][NextMatch]_vars

\* p is q with text added at its end
IsExtensionOf(p, q) == Len(p) >= Len(q) /\ SubSeq(p, 1, Len(q)) = q

\* C1: growing the plan never moves a covered line to missing
CoverageMonotonic ==
    [][(/\ pc = "analyzed"
        /\ pc' = "analyzed"
        /\ rule_lines' = rule_lines
        /\ IsExtensionOf(plan_text', plan_text))
          => \A line \in Range(rule_lines) :
                line \notin Range(missing_lines) => line \notin Range(missing_lines')]_vars

\* C2: a line is missing exactly when an item the shared tokenizer extracts
\* from it has a key that is not a key of the plan
ExactMatchSharedTokenizer ==
    pc = "analyzed" =>
        \A line \in Range(rule_lines) :
            line \in Range(missing_lines)
                <=> \E item \in extract_check_items_robust(line) :
                        normalize_token(item) \notin NormalizedPlanKeys(plan_text)

\* C7: a line with no extractable items is never reported missing
VacuousCoverage ==
    pc = "analyzed" =>
        \A line \in Range(rule_lines) :
            extract_check_items_robust(line) = {} => line \notin Range(missing_lines)

WordOperating == <<"O", "p", "e", "r", "a", "t", "i", "n", "g">>

WordTemperature == <<"t", "e", "m", "p", "e", "r", "a", "t", "u", "r", "e">>

WordTo == <<"t", "o">>

Word30C == <<"3", "0", "C">>

Word55C == <<"5", "5", "C">>

\* the tokens of a rule line whose key is not a key of the plan
UnmatchedTokens(line, plan) ==
    {tok \in Range(rule_tokens(line)) :
        normalize_token(tok) \notin NormalizedPlanKeys(plan)}

TemperatureScenario ==
    /\ pc = "analyzed"
    /\ rule_lines = <<OperatingTemperatureRule>>
    /\ plan_text = TemperaturePlan

\* C5 as stated: in the temperature scenario the line is not reported missing
TemperatureScenarioCovered == TemperatureScenario => missing_lines = <<>>

\* C5 as amended: in the temperature scenario both numeric tokens match, and
\* the line is reported missing because its words Operating, temperature and
\* to are not in the plan
TemperatureScenarioNumbersMatch ==
    TemperatureScenario =>
        /\ {Word30C, Word55C} \subseteq Range(rule_tokens(rule_lines[1]))
        /\ UnmatchedTokens(rule_lines[1], plan_text)
              = {WordOperating, WordTemperature, WordTo}
        /\ missing_lines = <<OperatingTemperatureRule>>

TemperatureScenarioAnalyzed == TemperatureScenario /\ missing_lines # <<>>

\* the signed numbers with their units that a text mentions, blanks removed
SignedItems(text) ==
    {SelectSeq(m, LAMBDA c : c \notin Space) :
        m \in Range(number_matches(lower(text), 1))}

\* C6: a line that requires a negative value is missing unless the plan
\* mentions that value with its minus sign
SignIsIdentity ==
    pc = "analyzed" =>
        \A line \in Range(rule_lines) :
            \A v \in SignedItems(line) :
                (v[1] = "-" /\ v \notin SignedItems(plan_text))
                    => line \in Range(missing_lines)

----------------------------------------------------------------------------
(* The history store and the "Analyze Test Plan" handler.                  *)

NoMissingMessage ==
    <<"N", "o", " ", "m", "i", "s", "s", "i", "n", "g", " ", "r", "u", "l",
      "e", "s", ";", " ", "c", "o", "v", "e", "r", "a", "g", "e", " ", "c",
      "o", "m", "p", "l", "e", "t", "e">>

NoApiKeyMessage ==
    <<"A", "I", " ", "s", "u", "g", "g", "e", "s", "t", "i", "o", "n", " ",
      "f", "a", "i", "l", "e", "d", ":", " ", "N", "o", " ", "A", "P", "I",
      " ", "k", "e", "y", " ", "c", "o", "n", "f", "i", "g", "u", "r", "e",
      "d">>

BlankResponseMessage ==
    <<"A", "I", " ", "s", "u", "g", "g", "e", "s", "t", "i", "o", "n", " ",
      "f", "a", "i", "l", "e", "d">>

\* the f-string of the except branch, for an exception whose text is "error"
ExceptionMessage ==
    <<"A", "I", " ", "s", "u", "g", "g", "e", "s", "t", "i", "o", "n", " ",
      "f", "a", "i", "l", "e", "d", ":", " ", "e", "r", "r", "o", "r",
      "\n", "\n", "T", "r", "a", "c", "e", "b", "a", "c", "k", ":", " ",
      "e", "r", "r", "o", "r">>

RuleLinesHeader ==
    <<"R", "u", "l", "e", " ", "L", "i", "n", "e", "s", ":", "\n">>

ProposedPlanHeader ==
    <<"P", "r", "o", "p", "o", "s", "e", "d", " ", "P", "l", "a", "n", ":",
      "\n">>

AiSuggestionsHeader ==
    <<"A", "I", " ", "S", "u", "g", "g", "e", "s", "t", "i", "o", "n", "s",
      ":", "\n">>

\* strftime("%Y%m%d_%H%M%S") of the first second of the model, less its seconds
TimestampPrefix ==
    <<"2", "0", "2", "6", "1", "1", "0", "2", "_", "0", "0", "0", "0">>

DigitSeq == <<"0", "1", "2", "3", "4", "5", "6", "7", "8", "9">>

DS1 == <<"D", "S", "-", "1">>

DS10 == <<"D", "S", "-", "1", "0">>

DS2 == <<"D", "S", "-", "2">>

Suggestion == <<"-", " ", "o", "k">>

MaxClock == 1

MaxFiles == 1

RequirementIds == {DS1, DS10, DS2}

\* what load_rules_for_requirement can return: no rule file, or the rule document
AppRuleDocs == {<<>>, <<Minus40CRule>>}

\* a plan that covers the rule document (the sign is dropped), and one that does not
AppPlans == {Plus40CPlan, Token25C}

\* response.text of the model: blank, or a suggestion
ModelTexts == {<<" ">>, Suggestion}

\* sep.join(parts)
RECURSIVE Join(_, _)
Join(parts, sep) ==
    IF parts = <<>> THEN <<>>
    ELSE IF Len(parts) = 1 THEN parts[1]
    ELSE parts[1] \o sep \o Join(Tail(parts), sep)

\* pd.Timestamp.now().strftime("%Y%m%d_%H%M%S"), t seconds into the model's time
Timestamp(t) ==
    TimestampPrefix \o <<DigitSeq[((t \div 10) % 10) + 1], DigitSeq[(t % 10) + 1]>>

\* the path save_history writes, less the directory
HistoryFileName(requirement_id, t) ==
    requirement_id \o <<"_">> \o Timestamp(t) \o <<".", "t", "x", "t">>

\* the three f.write calls of save_history, in order
HistoryWrites(missing_rule_lines, plan, suggestions) ==
    <<RuleLinesHeader \o Join(missing_rule_lines, <<"\n">>) \o <<"\n", "\n">>,
      ProposedPlanHeader \o plan \o <<"\n", "\n">>,
      AiSuggestionsHeader \o suggestions>>

\* the file after the first n writes
WrittenText(writes, n) == Join(SubSeq(writes, 1, n), <<>>)

\* f.startswith(requirement_id)
StartsWith(f, requirement_id) ==
    Len(f) >= Len(requirement_id) /\ SubSeq(f, 1, Len(requirement_id)) = requirement_id

\* history_files of load_history
HistoryFiles(requirement_id) == {f \in files : StartsWith(f.name, requirement_id)}

\* the orders in which os.listdir can list a set of files
Listings(S) ==
    {order \in [1..Cardinality(S) -> S] :
        \A i, j \in 1..Cardinality(S) : order[i] = order[j] => i = j}

\* not ai_text, the test without strip()
IsEmptyText(text) == text = <<>>

\* not ai_text.strip()
IsBlank(text) == \A i \in 1..Len(text) : text[i] \in Space

\* open(history_file, "w") followed by the writes that reached the file
WriteFile(name, requirement_id, text) ==
    {f \in files : f.name # name}
        \cup {[name |-> name, requirement_id |-> requirement_id, text |-> text]}

Init ==
    /\ user_input = <<>>
    /\ rule_lines = <<>>
    /\ plan_text = <<>>
    /\ missing_lines = <<>>
    /\ shown = <<>>
    /\ api_key \in BOOLEAN
    /\ files = {}
    /\ clock = 0
    /\ history = <<>>
    /\ ai_text = <<>>
    /\ ai_suggestions = <<>>
    /\ calls = <<>>
    /\ saved = <<>>
    /\ pc = "idle"
    /\ NormIdle

\* the script runs with the button pressed: the rules are loaded, the missing
\* lines computed and rendered
AnalyzeTestPlan ==
    /\ pc \in {"idle", "done", "aborted"}
    /\ Cardinality(files) <= MaxFiles
    /\ \E rid \in RequirementIds, plan \in AppPlans, rules \in AppRuleDocs,
          now \in {clock, clock + 1} :
        /\ now <= MaxClock
        /\ user_input' = rid
        /\ plan_text' = plan
        /\ rule_lines' = rules
        /\ clock' = now
        /\ missing_lines' = MissingLinesOf(rules, plan)
        /\ shown' = missing_lines'
    /\ history' = <<>>
    /\ ai_text' = <<>>
    /\ ai_suggestions' = <<>>
    /\ calls' = <<>>
    /\ saved' = <<>>
    /\ pc' = "rendered"
    /\ UNCHANGED <<api_key, files>>
    /\ UNCHANGED normVars

runInputs == <<user_input, rule_lines, plan_text, missing_lines, shown, api_key, clock>>

\* get_gemini_suggestions with nothing missing
ReturnNoMissing ==
    /\ pc = "rendered"
    /\ missing_lines = <<>>
    /\ ai_suggestions' = NoMissingMessage
    /\ pc' = "done"
    /\ UNCHANGED <<files, history, ai_text, calls, saved>>
    /\ UNCHANGED runInputs
    /\ UNCHANGED normVars

\* load_history reads the files whose name starts with the requirement ID
LoadHistory ==
    /\ pc = "rendered"
    /\ missing_lines # <<>>
    /\ \E listing \in Listings(HistoryFiles(user_input)) :
        history' = [i \in 1..Len(listing) |->
                        [file |-> listing[i].name, text |-> listing[i].text]]
    /\ calls' = Append(calls, "load_history")
    /\ pc' = "prompted"
    /\ UNCHANGED <<files, ai_text, ai_suggestions, saved>>
    /\ UNCHANGED runInputs
    /\ UNCHANGED normVars

\* a history file cannot be read: load_history is called outside the try
LoadHistoryRaises ==
    /\ pc = "rendered"
    /\ missing_lines # <<>>
    /\ HistoryFiles(user_input) # {}
    /\ calls' = Append(calls, "load_history")
    /\ pc' = "aborted"
    /\ UNCHANGED <<files, history, ai_text, ai_suggestions, saved>>
    /\ UNCHANGED runInputs
    /\ UNCHANGED normVars

ReturnNoApiKey ==
    /\ pc = "prompted"
    /\ ~api_key
    /\ ai_suggestions' = NoApiKeyMessage
    /\ pc' = "done"
    /\ UNCHANGED <<files, history, ai_text, calls, saved>>
    /\ UNCHANGED runInputs
    /\ UNCHANGED normVars

\* generate_content or response.text raises
ModelRaises ==
    /\ pc = "prompted"
    /\ api_key
    /\ calls' = Append(calls, "generate_content")
    /\ ai_suggestions' = ExceptionMessage
    /\ pc' = "done"
    /\ UNCHANGED <<files, history, ai_text, saved>>
    /\ UNCHANGED runInputs
    /\ UNCHANGED normVars

\* the model answers; a blank answer is returned as a failure
ModelResponds ==
    /\ pc = "prompted"
    /\ api_key
    /\ \E text \in ModelTexts :
        /\ ai_text' = text
        /\ IF IsBlank(text)
           THEN ai_suggestions' = BlankResponseMessage /\ pc' = "done"
           ELSE ai_suggestions' = ai_suggestions /\ pc' = "answered"
    /\ calls' = Append(calls, "generate_content")
    /\ UNCHANGED <<files, history, saved>>
    /\ UNCHANGED runInputs
    /\ UNCHANGED normVars

\* save_history writes the file and the text is returned
SaveHistory ==
    /\ pc = "answered"
    /\ files' = WriteFile(HistoryFileName(user_input, clock), user_input,
                          WrittenText(HistoryWrites(missing_lines, plan_text, ai_text), 3))
    /\ saved' = Append(saved, ai_text)
    /\ calls' = Append(calls, "save_history")
    /\ ai_suggestions' = ai_text
    /\ pc' = "done"
    /\ UNCHANGED <<history, ai_text>>
    /\ UNCHANGED runInputs
    /\ UNCHANGED normVars

\* save_history raises: at open, or after some of the writes
SaveHistoryRaises ==
    /\ pc = "answered"
    /\ \/ files' = files
       \/ \E n \in 0..2 :
            files' = WriteFile(HistoryFileName(user_input, clock), user_input,
                               WrittenText(HistoryWrites(missing_lines, plan_text, ai_text), n))
    /\ saved' = Append(saved, ai_text)
    /\ calls' = Append(calls, "save_history")
    /\ ai_suggestions' = ExceptionMessage
    /\ pc' = "done"
    /\ UNCHANGED <<history, ai_text>>
    /\ UNCHANGED runInputs
    /\ UNCHANGED normVars

Next ==
    \/ AnalyzeTestPlan
    \/ ReturnNoMissing
    \/ LoadHistory
    \/ LoadHistoryRaises
    \/ ReturnNoApiKey
    \/ ModelRaises
    \/ ModelResponds
    \/ SaveHistory
    \/ SaveHistoryRaises

Spec == Init /\ [][Next]_vars

\* the positions after the missing lines were rendered
AfterRender == {"rendered", "prompted", "answered", "done", "aborted"}

\* C8: the missing lines are computed and rendered before the suggestion
\* step and stay as they are, and every failure of the suggestion step ends
\* in a returned "AI suggestion failed" message, never in an exception that
\* aborts the run
SuggestionFailureKeepsCoverage ==
    /\ pc \in AfterRender =>
          /\ missing_lines = MissingLinesOf(rule_lines, plan_text)
          /\ shown = missing_lines
    /\ pc # "aborted"
    /\ pc = "done" =>
          \/ ai_suggestions = NoMissingMessage
          \/ ai_suggestions = ai_text /\ saved = <<ai_text>>
          \/ IsExtensionOf(ai_suggestions, BlankResponseMessage)

\* the model was called and returned text that is not blank
ModelReturnedText ==
    /\ "generate_content" \in Range(calls)
    /\ \E i \in 1..Len(ai_text) : ai_text[i] \notin {" ", "\n", "\t"}

\* what C9 says of every finished call, but for the text save_history gets
SavedOnlyOnSuccess ==
    /\ Len(saved) <= 1
    /\ Len(SelectSeq(calls, LAMBDA c : c = "save_history")) = Len(saved)
    /\ saved # <<>> <=> (missing_lines # <<>> /\ api_key /\ ModelReturnedText)
    /\ missing_lines = <<>> =>
          /\ ai_suggestions = NoMissingMessage
          /\ calls = <<>>
          /\ history = <<>>
          /\ ai_text = <<>>

\* C9 as stated: history is written exactly for the calls that succeed, once,
\* with the text the call returns
HistoryWrittenWithReturnedText ==
    pc \in {"done", "aborted"} =>
        /\ SavedOnlyOnSuccess
        /\ saved # <<>> => saved[1] = ai_suggestions

\* the history file a completed save_history leaves for this run
SavedFile ==
    [name |-> HistoryFileName(user_input, clock),
     requirement_id |-> user_input,
     text |-> RuleLinesHeader \o Join(missing_lines, <<"\n">>) \o <<"\n", "\n">>
                \o ProposedPlanHeader \o plan_text \o <<"\n", "\n">>
                \o AiSuggestionsHeader \o ai_text]

\* C9 as amended: history is written exactly for the calls whose model call
\* succeeds, once, with the model's text; the call returns that text when
\* save_history completes and a failure message when save_history raises
HistoryWrittenWithModelText ==
    pc \in {"done", "aborted"} =>
        /\ SavedOnlyOnSuccess
        /\ saved # <<>> =>
              /\ saved[1] = ai_text
              /\ \/ ai_suggestions = ai_text /\ SavedFile \in files
                 \/ ai_suggestions = ExceptionMessage

HistorySavedAndReturned ==
    /\ pc = "done"
    /\ saved = <<Suggestion>>
    /\ ai_suggestions = Suggestion
    /\ SavedFile \in files

\* C10: the history read for a requirement holds only files saved for it
HistoryIsolation ==
    pc \in {"prompted", "answered", "done"} =>
        \A i \in 1..Len(history) :
            \A f \in files :
                f.name = history[i].file => f.requirement_id = user_input

====
